---- MODULE Spec2Model ----
(***************************************************************************)
(* Model of the address-change case workflow of src/main.py: the in-memory *)
(* case store `cases`, the audit helper `_audit`, and one action per tool. *)
(*                                                                         *)
(* Representation:                                                         *)
(*  - a Python dict is a function whose DOMAIN is its key set;             *)
(*  - a Python list is a sequence;                                         *)
(*  - None is the record None below;                                       *)
(*  - the floats 0.73, 0.9, 0.8, 0.94 are held in hundredths;              *)
(*  - a case identifier f"CASE-{n:04d}" is the record                      *)
(*    [prefix |-> "CASE-", digits |-> <decimal digits of n, width >= 4>];  *)
(*  - datetime.utcnow().isoformat() is the reading of `clock`, which       *)
(*    advances by one at every reading;                                    *)
(*  - an audit `details` value that is a plain string s is [text |-> s].   *)
(* `result` holds the outcome of the most recent tool call: its name, its  *)
(* arguments, and either its return value or the exception it raised.      *)
(***************************************************************************)
EXTENDS Integers, Sequences, FiniteSets, TLC

VARIABLES cases, clock, calls, result, pc, old_addr, corrected,
          ingest_case_id, ingest_data, audit_frame, stored_by

vars == <<cases, clock, calls, result, pc, old_addr, corrected,
          ingest_case_id, ingest_data, audit_frame, stored_by>>

(***************************************************************************)
(* Bounds of the model.                                                    *)
(***************************************************************************)
MaxCalls == 4
MaxCases == 2

(***************************************************************************)
(* Python values.                                                          *)
(***************************************************************************)
None == [py_none |-> TRUE]

EmptyDict == [k \in {} |-> ""]

SetItem(d, k, v) == [x \in (DOMAIN d) \cup {k} |-> IF x = k THEN v ELSE d[x]]

(***************************************************************************)
(* f"CASE-{n:04d}": decimal digits of n, zero padded to width 4.           *)
(***************************************************************************)
RECURSIVE Digits(_)
Digits(n) == IF n < 10 THEN <<n>> ELSE Digits(n \div 10) \o <<n % 10>>

RECURSIVE ZeroPad(_, _)
ZeroPad(ds, width) == IF Len(ds) >= width THEN ds ELSE ZeroPad(<<0>> \o ds, width)

Format04d(n) == ZeroPad(Digits(n), 4)

CaseId(n) == [prefix |-> "CASE-", digits |-> Format04d(n)]

CaseIds == {CaseId(n) : n \in 1..MaxCases}

(***************************************************************************)
(* Intake payloads.  DEMO_PAYLOAD is the default argument of ingest_case;  *)
(* the other payloads differ in the raw new address, and one lacks it.     *)
(***************************************************************************)
DEMO_PAYLOAD ==
    [citizen_name      |-> "John Doe",
     citizen_dob       |-> "1998-04-12",
     old_address       |-> "Altstrasse 5, 67655 Kaiserslautern",
     new_address_raw   |-> "Musterstr 12a KL 12345",
     move_in_date_raw  |-> "2025-10-01",
     landlord_doc_path |-> "/tmp/landlord_confirmation.pdf",
     id_doc_path       |-> "/tmp/passport_scan.pdf"]

OtherPayload == [DEMO_PAYLOAD EXCEPT !.new_address_raw = "Ringweg 3 KL 67663"]

PartialPayload ==
    [citizen_name     |-> "John Doe",
     citizen_dob      |-> "1998-04-12",
     old_address      |-> "Altstrasse 5, 67655 Kaiserslautern",
     move_in_date_raw |-> "2025-10-01"]

Payloads == {DEMO_PAYLOAD, OtherPayload, PartialPayload}

CorrectedAddresses ==
    {"Musterstrasse 12a, 12345 Kaiserslautern", "Musterstr 12a KL 12345"}

ExtractKeys ==
    {"citizen_name", "citizen_dob", "old_address", "new_address_raw", "move_in_date_raw"}

(***************************************************************************)
(* Policy literals of the source, in hundredths.                           *)
(***************************************************************************)
ConfNewAddress == 73
ConfMoveInDate == 90
ConfThreshold == 80
IdentityScore == 94
IdentityThreshold == 90

ConfidenceKeys == <<"new_address", "move_in_date">>

(***************************************************************************)
(* Outcome of a call.                                                      *)
(***************************************************************************)
Returned(op, args, ret) ==
    [op |-> op, args |-> args, ok |-> TRUE, ret |-> ret, error |-> ""]

Raised(op, args, exc) ==
    [op |-> op, args |-> args, ok |-> FALSE, ret |-> None, error |-> exc]

NoCall == [op |-> "", args |-> None, ok |-> FALSE, ret |-> None, error |-> ""]

(***************************************************************************)
(* _audit: append one entry to the audit list of the case.  The caller     *)
(* has established case_id \in DOMAIN cs (otherwise the lookup raises).    *)
(***************************************************************************)
AuditEntry(ts, event, details) == [ts |-> ts, event |-> event, details |-> details]

\* Variant: the entry replaces the list instead of being appended to it.
_audit_overwrite(cs, case_id, event, details, now) ==
    [cs EXCEPT ![case_id].audit = <<AuditEntry(now, event, details)>>]

_audit(cs, case_id, event, details, now) ==
    [cs EXCEPT ![case_id].audit = Append(@, AuditEntry(now, event, details))]

(***************************************************************************)
(* ingest_case                                                             *)
(***************************************************************************)
NewCase(data) ==
    [data      |-> data,
     ocr       |-> None,
     status    |-> "created",
     audit     |-> <<>>,
     overrides |-> EmptyDict,
     working   |-> EmptyDict]

\* Variant: the identifier is formed from len(cases) instead of len(cases)+1
\* when the store already holds a case, so the newest identifier is reused.
IngestCaseId_reuses_last(cs) ==
    CaseId(IF DOMAIN cs = {} THEN 1 ELSE Cardinality(DOMAIN cs))

IngestCaseId(cs) == CaseId(Cardinality(DOMAIN cs) + 1)

\* Variant: the record is stored without the creation entry being logged.
IngestStore_no_audit(cs, data, now) ==
    LET case_id == IngestCaseId(cs)
    IN  [k \in (DOMAIN cs) \cup {case_id} |->
            IF k = case_id THEN NewCase(data) ELSE cs[k]]

IngestStore(cs, data, now) ==
    LET case_id == IngestCaseId(cs)
        stored  == [k \in (DOMAIN cs) \cup {case_id} |->
                        IF k = case_id THEN NewCase(data) ELSE cs[k]]
    IN  _audit(stored, case_id, "ingest_case",
               [text |-> "Case created with citizen data."], now)

ingest_case(data) ==
    /\ calls < MaxCalls
    /\ Cardinality(DOMAIN cases) < MaxCases
    /\ cases' = IngestStore(cases, data, clock)
    /\ clock' = clock + 1
    /\ calls' = calls + 1
    /\ result' = Returned("ingest_case", [data |-> data],
                          [case_id |-> IngestCaseId(cases),
                           message |-> "Case created."])
    /\ UNCHANGED <<pc, old_addr, corrected, ingest_case_id, ingest_data, audit_frame, stored_by>>

(***************************************************************************)
(* run_ocr_extract                                                         *)
(***************************************************************************)
Extracted(data) ==
    [citizen_name             |-> data.citizen_name,
     citizen_dob              |-> data.citizen_dob,
     old_address              |-> data.old_address,
     new_address              |-> data.new_address_raw,
     move_in_date             |-> data.move_in_date_raw,
     landlord_signature_found |-> TRUE]

Confidence == [new_address |-> ConfNewAddress, move_in_date |-> ConfMoveInDate]

\* Variant: re-extraction also resets the overrides of the case.
OcrStore_clears_overrides(cs, case_id, now) ==
    LET extracted == Extracted(cs[case_id].data)
        written   == [cs EXCEPT
                        ![case_id].ocr = [fields |-> extracted, confidence |-> Confidence],
                        ![case_id].overrides = EmptyDict,
                        ![case_id].working = [new_address  |-> extracted.new_address,
                                              move_in_date |-> extracted.move_in_date]]
    IN  _audit(written, case_id, "run_ocr_extract", [low_conf |-> <<"new_address">>], now)

OcrStore(cs, case_id, now) ==
    LET extracted == Extracted(cs[case_id].data)
        written   == [cs EXCEPT
                        ![case_id].ocr = [fields |-> extracted, confidence |-> Confidence],
                        ![case_id].working = [new_address  |-> extracted.new_address,
                                              move_in_date |-> extracted.move_in_date]]
    IN  _audit(written, case_id, "run_ocr_extract", [low_conf |-> <<"new_address">>], now)

run_ocr_extract(case_id) ==
    /\ calls < MaxCalls
    /\ calls' = calls + 1
    /\ UNCHANGED <<pc, old_addr, corrected, ingest_case_id, ingest_data, audit_frame, stored_by>>
    /\ LET args == [case_id |-> case_id] IN
       IF case_id \notin DOMAIN cases
          \/ ~(ExtractKeys \subseteq DOMAIN cases[case_id].data)
       THEN /\ result' = Raised("run_ocr_extract", args, "KeyError")
            /\ UNCHANGED <<cases, clock>>
       ELSE /\ cases' = OcrStore(cases, case_id, clock)
            /\ clock' = clock + 1
            /\ result' = Returned("run_ocr_extract", args,
                            [extracted_fields |-> Extracted(cases[case_id].data),
                             confidence       |-> Confidence])

(***************************************************************************)
(* check_completeness                                                      *)
(***************************************************************************)
\* Variant: the comparison with the threshold is turned around.
LowConf_above(confidence) ==
    SelectSeq(ConfidenceKeys, LAMBDA k : confidence[k] > ConfThreshold)

\* Variant: a confidence equal to the threshold counts as low.
LowConf_inclusive(confidence) ==
    SelectSeq(ConfidenceKeys, LAMBDA k : confidence[k] <= ConfThreshold)

LowConf(confidence) ==
    SelectSeq(ConfidenceKeys, LAMBDA k : confidence[k] < ConfThreshold)

CompletenessStatus(low_conf) == IF low_conf # <<>> THEN "hitl_required" ELSE "ok"

check_completeness(case_id) ==
    /\ calls < MaxCalls
    /\ calls' = calls + 1
    /\ UNCHANGED <<pc, old_addr, corrected, ingest_case_id, ingest_data, audit_frame, stored_by>>
    /\ LET args == [case_id |-> case_id] IN
       IF case_id \notin DOMAIN cases
       THEN /\ result' = Raised("check_completeness", args, "KeyError")
            /\ UNCHANGED <<cases, clock>>
       ELSE IF cases[case_id].ocr = None
       THEN /\ result' = Raised("check_completeness", args, "TypeError")
            /\ UNCHANGED <<cases, clock>>
       ELSE LET low_conf == LowConf(cases[case_id].ocr.confidence)
                status   == CompletenessStatus(low_conf)
            IN  /\ cases' = _audit(cases, case_id, "check_completeness",
                                   [status |-> status, low_conf |-> low_conf], clock)
                /\ clock' = clock + 1
                /\ result' = Returned("check_completeness", args,
                                [status |-> status, low_conf_fields |-> low_conf])

(***************************************************************************)
(* resolve_hitl_update_address                                             *)
(***************************************************************************)
OverrideDetails(old, new) ==
    [old_address |-> old, corrected_address |-> new, source |-> "human_officer"]

\* Variant: the corrected value reaches working but not overrides.
ResolveStore_no_override(cs, case_id, corrected_address, now) ==
    LET old     == cs[case_id].working.new_address
        written == [cs EXCEPT
                      ![case_id].working = SetItem(@, "new_address", corrected_address)]
    IN  _audit(written, case_id, "resolve_hitl_update_address",
               OverrideDetails(old, corrected_address), now)

\* Variant: the corrected value is also written into the extraction record.
ResolveStore_edits_ocr(cs, case_id, corrected_address, now) ==
    LET old     == cs[case_id].working.new_address
        written == [cs EXCEPT
                      ![case_id].working = SetItem(@, "new_address", corrected_address),
                      ![case_id].overrides = SetItem(@, "new_address", corrected_address),
                      ![case_id].ocr.fields.new_address = corrected_address]
    IN  _audit(written, case_id, "resolve_hitl_update_address",
               OverrideDetails(old, corrected_address), now)

\* Variant: the old value is read after the corrected value was written.
ResolveStore_reads_old_late(cs, case_id, corrected_address, now) ==
    LET written == [cs EXCEPT
                      ![case_id].working = SetItem(@, "new_address", corrected_address),
                      ![case_id].overrides = SetItem(@, "new_address", corrected_address)]
        old     == written[case_id].working.new_address
    IN  _audit(written, case_id, "resolve_hitl_update_address",
               OverrideDetails(old, corrected_address), now)

\* Variant: an override that repeats the current working value is not logged.
ResolveStore_skips_repeat(cs, case_id, corrected_address, now) ==
    LET old     == cs[case_id].working.new_address
        written == [cs EXCEPT
                      ![case_id].working = SetItem(@, "new_address", corrected_address),
                      ![case_id].overrides = SetItem(@, "new_address", corrected_address)]
    IN  IF old = corrected_address /\ "new_address" \in DOMAIN cs[case_id].overrides
        THEN written
        ELSE _audit(written, case_id, "resolve_hitl_update_address",
                    OverrideDetails(old, corrected_address), now)

\* Variant: the override marks the field as verified in the extraction record.
ResolveStore_marks_verified(cs, case_id, corrected_address, now) ==
    LET old     == cs[case_id].working.new_address
        written == [cs EXCEPT
                      ![case_id].working = SetItem(@, "new_address", corrected_address),
                      ![case_id].overrides = SetItem(@, "new_address", corrected_address),
                      ![case_id].ocr.confidence.new_address = 100]
    IN  _audit(written, case_id, "resolve_hitl_update_address",
               OverrideDetails(old, corrected_address), now)

ResolveStore(cs, case_id, corrected_address, now) ==
    LET old     == cs[case_id].working.new_address
        written == [cs EXCEPT
                      ![case_id].working = SetItem(@, "new_address", corrected_address),
                      ![case_id].overrides = SetItem(@, "new_address", corrected_address)]
    IN  _audit(written, case_id, "resolve_hitl_update_address",
               OverrideDetails(old, corrected_address), now)

resolve_hitl_update_address(case_id, corrected_address) ==
    /\ calls < MaxCalls
    /\ calls' = calls + 1
    /\ UNCHANGED <<pc, old_addr, corrected, ingest_case_id, ingest_data, audit_frame, stored_by>>
    /\ LET args == [case_id |-> case_id, corrected_address |-> corrected_address] IN
       IF case_id \notin DOMAIN cases
          \/ "new_address" \notin DOMAIN cases[case_id].working
       THEN /\ result' = Raised("resolve_hitl_update_address", args, "KeyError")
            /\ UNCHANGED <<cases, clock>>
       ELSE /\ cases' = ResolveStore(cases, case_id, corrected_address, clock)
            /\ clock' = clock + 1
            /\ result' = Returned("resolve_hitl_update_address", args,
                            [message        |-> "Address override applied",
                             case_id        |-> case_id,
                             old_address    |-> cases[case_id].working.new_address,
                             new_address    |-> corrected_address,
                             next_step_hint |->
                                "You can now continue with match_registry_identity, etc."])

(***************************************************************************)
(* The steps that only audit: the body computes its status from literals,  *)
(* calls _audit (which raises KeyError for an unknown case) and returns.   *)
(***************************************************************************)
AuditStep(op, case_id, details, ret) ==
    /\ calls < MaxCalls
    /\ calls' = calls + 1
    /\ UNCHANGED <<pc, old_addr, corrected, ingest_case_id, ingest_data, audit_frame, stored_by>>
    /\ IF case_id \notin DOMAIN cases
       THEN /\ result' = Raised(op, [case_id |-> case_id], "KeyError")
            /\ UNCHANGED <<cases, clock>>
       ELSE /\ cases' = _audit(cases, case_id, op, details, clock)
            /\ clock' = clock + 1
            /\ result' = Returned(op, [case_id |-> case_id], ret)

\* Variant: a case whose log holds a close entry refuses the step.
match_registry_identity_rejects_closed(case_id) ==
    IF /\ case_id \in DOMAIN cases
       /\ \E i \in 1..Len(cases[case_id].audit) :
              cases[case_id].audit[i].event = "close_case_and_audit"
    THEN /\ calls < MaxCalls
         /\ calls' = calls + 1
         /\ result' = Raised("match_registry_identity", [case_id |-> case_id], "ValueError")
         /\ UNCHANGED <<cases, clock, pc, old_addr, corrected, ingest_case_id, ingest_data, audit_frame, stored_by>>
    ELSE AuditStep("match_registry_identity", case_id,
                   [score |-> IdentityScore, status |-> "match"],
                   [status |-> "match", score |-> IdentityScore, hitl_required |-> FALSE])

match_registry_identity(case_id) ==
    LET score  == IdentityScore
        status == IF score > IdentityThreshold THEN "match" ELSE "mismatch"
    IN  AuditStep("match_registry_identity", case_id,
                  [score |-> score, status |-> status],
                  [status |-> status, score |-> score, hitl_required |-> status # "match"])

validate_landlord_confirmation(case_id) ==
    LET valid  == TRUE
        status == IF valid THEN "valid" ELSE "invalid"
    IN  AuditStep("validate_landlord_confirmation", case_id,
                  [status |-> status],
                  [status |-> status, hitl_required |-> ~valid])

(***************************************************************************)
(* canonicalize_address reads working["new_address"] before anything else. *)
(* The street literal of the source is written here in ASCII.              *)
(***************************************************************************)
Canonical(input_addr) ==
    [input        |-> input_addr,
     street       |-> "Musterstrasse",
     house_number |-> "12A",
     postal_code  |-> "12345",
     city         |-> "Kaiserslautern"]

\* Variant: a missing working address is read as None instead of raising.
canonicalize_address_lenient(case_id) ==
    /\ calls < MaxCalls
    /\ calls' = calls + 1
    /\ UNCHANGED <<pc, old_addr, corrected, ingest_case_id, ingest_data, audit_frame, stored_by>>
    /\ LET args == [case_id |-> case_id] IN
       IF case_id \notin DOMAIN cases
       THEN /\ result' = Raised("canonicalize_address", args, "KeyError")
            /\ UNCHANGED <<cases, clock>>
       ELSE LET input_addr == IF "new_address" \in DOMAIN cases[case_id].working
                              THEN cases[case_id].working.new_address
                              ELSE "None"
            IN  /\ cases' = _audit(cases, case_id, "canonicalize_address",
                                   [status |-> "ok"], clock)
                /\ clock' = clock + 1
                /\ result' = Returned("canonicalize_address", args,
                                [status |-> "ok",
                                 canonical_address |-> Canonical(input_addr),
                                 hitl_required |-> FALSE])

canonicalize_address(case_id) ==
    /\ calls < MaxCalls
    /\ calls' = calls + 1
    /\ UNCHANGED <<pc, old_addr, corrected, ingest_case_id, ingest_data, audit_frame, stored_by>>
    /\ LET args == [case_id |-> case_id] IN
       IF case_id \notin DOMAIN cases
          \/ "new_address" \notin DOMAIN cases[case_id].working
       THEN /\ result' = Raised("canonicalize_address", args, "KeyError")
            /\ UNCHANGED <<cases, clock>>
       ELSE LET canonical == Canonical(cases[case_id].working.new_address)
                ambiguous == FALSE
                status    == IF ~ambiguous THEN "ok" ELSE "ambiguous"
            IN  /\ cases' = _audit(cases, case_id, "canonicalize_address",
                                   [status |-> status], clock)
                /\ clock' = clock + 1
                /\ result' = Returned("canonicalize_address", args,
                                [status |-> status, canonical_address |-> canonical,
                                 hitl_required |-> ambiguous])

check_business_rules(case_id) ==
    LET violations == <<>>
        status     == IF violations = <<>> THEN "pass" ELSE "fail"
    IN  AuditStep("check_business_rules", case_id,
                  [status |-> status],
                  [status |-> status, violations |-> violations,
                   hitl_required |-> violations # <<>>])

update_registry(case_id) ==
    LET conflict == FALSE
        status   == IF ~conflict THEN "updated" ELSE "conflict"
    IN  AuditStep("update_registry", case_id,
                  [status |-> status],
                  [status |-> status, hitl_required |-> conflict])

CertificatePath(case_id) ==
    [dir |-> "/tmp/", case_id |-> case_id, suffix |-> "_meldebescheinigung.pdf"]

generate_certificate(case_id) ==
    LET path == CertificatePath(case_id)
    IN  AuditStep("generate_certificate", case_id,
                  [path |-> path],
                  [status |-> "generated", certificate_path |-> path])

\* Variant: the store creates a record for an identifier it does not know.
notify_citizen_autocreate(case_id) ==
    IF case_id \in DOMAIN cases
    THEN AuditStep("notify_citizen", case_id,
                   [sent_to |-> "citizen@example.com"],
                   [status |-> "sent", email |-> "citizen@example.com"])
    ELSE /\ calls < MaxCalls
         /\ calls' = calls + 1
         /\ cases' = _audit([k \in (DOMAIN cases) \cup {case_id} |->
                                IF k = case_id THEN NewCase(EmptyDict) ELSE cases[k]],
                            case_id, "notify_citizen",
                            [sent_to |-> "citizen@example.com"], clock)
         /\ clock' = clock + 1
         /\ result' = Returned("notify_citizen", [case_id |-> case_id],
                               [status |-> "sent", email |-> "citizen@example.com"])
         /\ UNCHANGED <<pc, old_addr, corrected, ingest_case_id, ingest_data, audit_frame, stored_by>>

notify_citizen(case_id) ==
    AuditStep("notify_citizen", case_id,
              [sent_to |-> "citizen@example.com"],
              [status |-> "sent", email |-> "citizen@example.com"])

(***************************************************************************)
(* close_case_and_audit: `audit` is a reference to the stored list, so the *)
(* list returned as audit_log is the stored list after the append.         *)
(***************************************************************************)
\* Variant: the returned list starts after the first entry.
CloseAuditLog_tail(cs_after, case_id) == Tail(cs_after[case_id].audit)

CloseAuditLog(cs_after, case_id) == cs_after[case_id].audit

close_case_and_audit(case_id) ==
    /\ calls < MaxCalls
    /\ calls' = calls + 1
    /\ UNCHANGED <<pc, old_addr, corrected, ingest_case_id, ingest_data, audit_frame, stored_by>>
    /\ IF case_id \notin DOMAIN cases
       THEN /\ result' = Raised("close_case_and_audit", [case_id |-> case_id], "KeyError")
            /\ UNCHANGED <<cases, clock>>
       ELSE /\ cases' = _audit(cases, case_id, "close_case_and_audit",
                           [text |-> "Case closed."], clock)
            /\ clock' = clock + 1
            /\ result' = Returned("close_case_and_audit", [case_id |-> case_id],
                            [status |-> "closed", audit_log |-> CloseAuditLog(cases', case_id)])

(***************************************************************************)
(* Specification of the sequential tool calls.                             *)
(***************************************************************************)
Init ==
    /\ cases = [k \in {} |-> NewCase(DEMO_PAYLOAD)]
    /\ clock = 0
    /\ calls = 0
    /\ result = NoCall
    /\ pc = <<>>
    /\ old_addr = <<>>
    /\ corrected = <<>>
    /\ ingest_case_id = <<>>
    /\ ingest_data = <<>>
    /\ audit_frame = <<>>
    /\ stored_by = <<>>

Next ==
    \/ \E data \in Payloads : ingest_case(data)
    \/ \E case_id \in CaseIds : run_ocr_extract(case_id)
    \/ \E case_id \in CaseIds : check_completeness(case_id)
    \/ \E case_id \in CaseIds : \E corrected_address \in CorrectedAddresses :
          resolve_hitl_update_address(case_id, corrected_address)
    \/ \E case_id \in CaseIds : match_registry_identity(case_id)
    \/ \E case_id \in CaseIds : validate_landlord_confirmation(case_id)
    \/ \E case_id \in CaseIds : canonicalize_address(case_id)
    \/ \E case_id \in CaseIds : check_business_rules(case_id)
    \/ \E case_id \in CaseIds : update_registry(case_id)
    \/ \E case_id \in CaseIds : generate_certificate(case_id)
    \/ \E case_id \in CaseIds : notify_citizen(case_id)
    \/ \E case_id \in CaseIds : close_case_and_audit(case_id)

Spec == Init /\ [][Next]_vars

(***************************************************************************)
(* Concurrent calls of resolve_hitl_update_address.  The function holds no *)
(* lock, so two calls on one case interleave between its statements.  Each *)
(* thread runs one call on the first case; the store starts as ingest_case *)
(* followed by run_ocr_extract leaves it.  pc[t] is the source line thread *)
(* t executes next.                                                        *)
(***************************************************************************)
NumThreads == 2

Threads == 1..NumThreads

SharedCase == CaseId(1)

ExtractedStore(data) ==
    OcrStore(IngestStore([k \in {} |-> NewCase(data)], data, 0), SharedCase, 1)

(***************************************************************************)
(* A call of _audit in a thread.  The statement of lines 25-27 evaluates,  *)
(* in this order: the list cases[case_id]["audit"] (line 25), the entry    *)
(* with the clock reading (line 26), and the append to the list fetched    *)
(* first.  Another thread can run between any two of them.                 *)
(* audit_frame[t] holds what thread t has evaluated so far: the list and   *)
(* the clock reading.  A list is named by the identifier it was fetched    *)
(* under and by the record object it belongs to; stored_by[c] names the    *)
(* record object stored under c: 0 for a record stored before the threads  *)
(* started, t for the record stored by line 37 of thread t.  An append to  *)
(* the list of a record that has been replaced does not reach the store.   *)
(***************************************************************************)
NoFrame == [list |-> None, ts |-> None]

AuditLookup(frames, t, case_id, owners) ==
    [frames EXCEPT ![t] = [list |-> [case_id |-> case_id, record |-> owners[case_id]],
                           ts   |-> None]]

AuditNow(frames, t, now) == [frames EXCEPT ![t].ts = now]

AuditAppend(cs, frame, owners, event, details) ==
    IF /\ frame.list.case_id \in DOMAIN cs
       /\ owners[frame.list.case_id] = frame.list.record
    THEN _audit(cs, frame.list.case_id, event, details, frame.ts)
    ELSE cs

InitConc ==
    /\ \E data \in {DEMO_PAYLOAD, OtherPayload} : cases = ExtractedStore(data)
    /\ clock = 2
    /\ calls = 2
    /\ result = NoCall
    /\ pc = [t \in Threads |-> "L88"]
    /\ old_addr = [t \in Threads |-> None]
    /\ corrected \in [Threads -> CorrectedAddresses]
    /\ ingest_case_id = <<>>
    /\ ingest_data = <<>>
    /\ audit_frame = [t \in Threads |-> NoFrame]
    /\ stored_by = [c \in {SharedCase} |-> 0]

\* line 88: case = cases[case_id]
resolve_L88(t) ==
    /\ pc[t] = "L88"
    /\ SharedCase \in DOMAIN cases
    /\ pc' = [pc EXCEPT ![t] = "L90"]
    /\ UNCHANGED <<cases, clock, calls, result, old_addr, corrected, ingest_case_id, ingest_data, audit_frame, stored_by>>

\* line 90: old_addr = case["working"]["new_address"]
resolve_L90(t) ==
    /\ pc[t] = "L90"
    /\ "new_address" \in DOMAIN cases[SharedCase].working
    /\ old_addr' = [old_addr EXCEPT ![t] = cases[SharedCase].working.new_address]
    /\ pc' = [pc EXCEPT ![t] = "L91"]
    /\ UNCHANGED <<cases, clock, calls, result, corrected, ingest_case_id, ingest_data, audit_frame, stored_by>>

\* line 91: case["working"]["new_address"] = corrected_address
resolve_L91(t) ==
    /\ pc[t] = "L91"
    /\ cases' = [cases EXCEPT
                   ![SharedCase].working = SetItem(@, "new_address", corrected[t])]
    /\ pc' = [pc EXCEPT ![t] = "L92"]
    /\ UNCHANGED <<clock, calls, result, old_addr, corrected, ingest_case_id, ingest_data, audit_frame, stored_by>>

\* line 92: case["overrides"]["new_address"] = corrected_address
resolve_L92(t) ==
    /\ pc[t] = "L92"
    /\ cases' = [cases EXCEPT
                   ![SharedCase].overrides = SetItem(@, "new_address", corrected[t])]
    /\ pc' = [pc EXCEPT ![t] = "L94"]
    /\ UNCHANGED <<clock, calls, result, old_addr, corrected, ingest_case_id, ingest_data, audit_frame, stored_by>>

\* lines 94-102 and 25: the call of _audit fetches cases[case_id]["audit"]
resolve_L94(t) ==
    /\ pc[t] = "L94"
    /\ SharedCase \in DOMAIN cases
    /\ audit_frame' = AuditLookup(audit_frame, t, SharedCase, stored_by)
    /\ pc' = [pc EXCEPT ![t] = "L94_now"]
    /\ UNCHANGED <<cases, clock, calls, result, old_addr, corrected,
                   ingest_case_id, ingest_data, stored_by>>

\* line 26: the entry is built with datetime.utcnow().isoformat()
resolve_L94_now(t) ==
    /\ pc[t] = "L94_now"
    /\ audit_frame' = AuditNow(audit_frame, t, clock)
    /\ clock' = clock + 1
    /\ pc' = [pc EXCEPT ![t] = "L94_append"]
    /\ UNCHANGED <<cases, calls, result, old_addr, corrected,
                   ingest_case_id, ingest_data, stored_by>>

\* line 25: list.append(entry)
resolve_L94_append(t) ==
    /\ pc[t] = "L94_append"
    /\ cases' = AuditAppend(cases, audit_frame[t], stored_by,
                            "resolve_hitl_update_address",
                            OverrideDetails(old_addr[t], corrected[t]))
    /\ pc' = [pc EXCEPT ![t] = "L104"]
    /\ UNCHANGED <<clock, calls, result, old_addr, corrected,
                   ingest_case_id, ingest_data, audit_frame, stored_by>>

\* lines 104-110: return {...}
resolve_L104(t) ==
    /\ pc[t] = "L104"
    /\ calls' = calls + 1
    /\ result' = Returned("resolve_hitl_update_address",
                    [case_id |-> SharedCase, corrected_address |-> corrected[t]],
                    [message        |-> "Address override applied",
                     case_id        |-> SharedCase,
                     old_address    |-> old_addr[t],
                     new_address    |-> corrected[t],
                     next_step_hint |->
                        "You can now continue with match_registry_identity, etc."])
    /\ pc' = [pc EXCEPT ![t] = "done"]
    /\ UNCHANGED <<cases, clock, old_addr, corrected, ingest_case_id, ingest_data, audit_frame, stored_by>>

NextConc ==
    \/ \E t \in Threads : resolve_L88(t)
    \/ \E t \in Threads : resolve_L90(t)
    \/ \E t \in Threads : resolve_L91(t)
    \/ \E t \in Threads : resolve_L92(t)
    \/ \E t \in Threads : resolve_L94(t)
    \/ \E t \in Threads : resolve_L94_now(t)
    \/ \E t \in Threads : resolve_L94_append(t)
    \/ \E t \in Threads : resolve_L104(t)

SpecConc == InitConc /\ [][NextConc]_vars

(***************************************************************************)
(* Concurrent calls of ingest_case.  The function holds no lock, so two    *)
(* calls interleave between its statements.  Each thread runs one call     *)
(* with its own payload ingest_data[t]; ingest_case_id[t] is its local     *)
(* case_id.  The store starts empty or with one extracted case.            *)
(***************************************************************************)
InitConcIngest ==
    /\ \E start \in {[k \in {} |-> NewCase(DEMO_PAYLOAD)], ExtractedStore(DEMO_PAYLOAD)} :
          /\ cases = start
          /\ clock = 2 * Cardinality(DOMAIN start)
          /\ calls = 2 * Cardinality(DOMAIN start)
          /\ stored_by = [c \in DOMAIN start |-> 0]
    /\ result = NoCall
    /\ pc = [t \in Threads |-> "L36"]
    /\ old_addr = <<>>
    /\ corrected = <<>>
    /\ ingest_case_id = [t \in Threads |-> None]
    /\ ingest_data \in [Threads -> {DEMO_PAYLOAD, OtherPayload}]
    /\ audit_frame = [t \in Threads |-> NoFrame]

\* line 36: case_id = f"CASE-{len(cases)+1:04d}"
ingest_L36(t) ==
    /\ pc[t] = "L36"
    /\ ingest_case_id' = [ingest_case_id EXCEPT ![t] = IngestCaseId(cases)]
    /\ pc' = [pc EXCEPT ![t] = "L37"]
    /\ UNCHANGED <<cases, clock, calls, result, old_addr, corrected, ingest_data, audit_frame, stored_by>>

\* lines 37-44: cases[case_id] = {...}
ingest_L37(t) ==
    /\ pc[t] = "L37"
    /\ cases' = [k \in (DOMAIN cases) \cup {ingest_case_id[t]} |->
                    IF k = ingest_case_id[t] THEN NewCase(ingest_data[t]) ELSE cases[k]]
    /\ stored_by' = SetItem(stored_by, ingest_case_id[t], t)
    /\ pc' = [pc EXCEPT ![t] = "L45"]
    /\ UNCHANGED <<clock, calls, result, old_addr, corrected,
                   ingest_case_id, ingest_data, audit_frame>>

\* lines 45 and 25: the call of _audit fetches cases[case_id]["audit"]
ingest_L45(t) ==
    /\ pc[t] = "L45"
    /\ ingest_case_id[t] \in DOMAIN cases
    /\ audit_frame' = AuditLookup(audit_frame, t, ingest_case_id[t], stored_by)
    /\ pc' = [pc EXCEPT ![t] = "L45_now"]
    /\ UNCHANGED <<cases, clock, calls, result, old_addr, corrected,
                   ingest_case_id, ingest_data, stored_by>>

\* line 26: the entry is built with datetime.utcnow().isoformat()
ingest_L45_now(t) ==
    /\ pc[t] = "L45_now"
    /\ audit_frame' = AuditNow(audit_frame, t, clock)
    /\ clock' = clock + 1
    /\ pc' = [pc EXCEPT ![t] = "L45_append"]
    /\ UNCHANGED <<cases, calls, result, old_addr, corrected,
                   ingest_case_id, ingest_data, stored_by>>

\* line 25: list.append(entry)
ingest_L45_append(t) ==
    /\ pc[t] = "L45_append"
    /\ cases' = AuditAppend(cases, audit_frame[t], stored_by, "ingest_case",
                            [text |-> "Case created with citizen data."])
    /\ pc' = [pc EXCEPT ![t] = "L46"]
    /\ UNCHANGED <<clock, calls, result, old_addr, corrected,
                   ingest_case_id, ingest_data, audit_frame, stored_by>>

\* line 46: return {"case_id": case_id, "message": "Case created."}
ingest_L46(t) ==
    /\ pc[t] = "L46"
    /\ calls' = calls + 1
    /\ result' = Returned("ingest_case", [data |-> ingest_data[t]],
                          [case_id |-> ingest_case_id[t], message |-> "Case created."])
    /\ pc' = [pc EXCEPT ![t] = "done"]
    /\ UNCHANGED <<cases, clock, old_addr, corrected, ingest_case_id, ingest_data, audit_frame, stored_by>>

NextConcIngest ==
    \/ \E t \in Threads : ingest_L36(t)
    \/ \E t \in Threads : ingest_L37(t)
    \/ \E t \in Threads : ingest_L45(t)
    \/ \E t \in Threads : ingest_L45_now(t)
    \/ \E t \in Threads : ingest_L45_append(t)
    \/ \E t \in Threads : ingest_L46(t)

SpecConcIngest == InitConcIngest /\ [][NextConcIngest]_vars

(***************************************************************************)
(* check_completeness as a function of the extraction confidences.  The    *)
(* extraction of the source is simulated and always yields the literals of *)
(* line 61; here the confidence dict of the extracted case is drawn from a *)
(* range around the threshold, so both outcomes of lines 77-78 occur, and  *)
(* check_completeness is called on it.                                     *)
(***************************************************************************)
ConfidenceValues == {73, 79, 80, 81, 90}

InitCompleteness ==
    /\ \E conf \in [{"new_address", "move_in_date"} -> ConfidenceValues] :
          cases = [ExtractedStore(DEMO_PAYLOAD) EXCEPT ![SharedCase].ocr.confidence = conf]
    /\ clock = 2
    /\ calls = 2
    /\ result = NoCall
    /\ pc = <<>>
    /\ old_addr = <<>>
    /\ corrected = <<>>
    /\ ingest_case_id = <<>>
    /\ ingest_data = <<>>
    /\ audit_frame = <<>>
    /\ stored_by = <<>>

NextCompleteness == \E case_id \in CaseIds : check_completeness(case_id)

SpecCompleteness == InitCompleteness /\ [][NextCompleteness]_vars

(***************************************************************************)
(* Helpers of the properties.                                              *)
(***************************************************************************)
CallMade == calls' # calls

Succeeded(op) == result.ok /\ result.op = op

SucceededNext(op) == CallMade /\ result'.ok /\ result'.op = op

IsOverrideEntry(e, value) ==
    /\ e.event = "resolve_hitl_update_address"
    /\ e.details.corrected_address = value

IsPrefix(old, new) ==
    /\ Len(old) <= Len(new)
    /\ SubSeq(new, 1, Len(old)) = old

Closed(case_id) ==
    \E i \in 1..Len(cases[case_id].audit) :
        cases[case_id].audit[i].event = "close_case_and_audit"

(***************************************************************************)
(* C1.  Overlay invariant: for every case on which extraction has run and  *)
(* every field f held in working, working[f] is overrides[f] when f has an *)
(* override and ocr.fields[f] otherwise.                                   *)
(***************************************************************************)
C1_OverlayInvariant ==
    \A c \in DOMAIN cases :
        cases[c].ocr # None =>
            \A f \in DOMAIN cases[c].working :
                cases[c].working[f] =
                    IF f \in DOMAIN cases[c].overrides
                    THEN cases[c].overrides[f]
                    ELSE cases[c].ocr.fields[f]

(***************************************************************************)
(* C2.  The audit log is append-only: a successful call makes the log of   *)
(* its case exactly one entry longer, keeps the previous log as a prefix,  *)
(* names the operation in the new entry, and touches no other case's log.  *)
(***************************************************************************)
TargetOfNext ==
    IF result'.op = "ingest_case" THEN result'.ret.case_id ELSE result'.args.case_id

C2_AuditAppendOnly ==
    [][(CallMade /\ result'.ok) =>
        LET cid == TargetOfNext
            old == IF cid \in DOMAIN cases THEN cases[cid].audit ELSE <<>>
            new == cases'[cid].audit
        IN  /\ Len(new) = Len(old) + 1
            /\ IsPrefix(old, new)
            /\ new[Len(new)].event = result'.op
            /\ \A other \in (DOMAIN cases) \ {cid} :
                   cases'[other].audit = cases[other].audit]_vars

C2_Witness ==
    /\ Succeeded("close_case_and_audit")
    /\ Len(cases[result.args.case_id].audit) >= 3

(***************************************************************************)
(* C3.  A second override with a different value wins: after a successful *)
(* resolve_hitl_update_address(v2) on a case whose override was v1 # v2,   *)
(* working.new_address and overrides.new_address are v2 and the audit log  *)
(* holds an override entry for v1 before an override entry for v2.         *)
(***************************************************************************)
C3_LastOverrideWins ==
    [][SucceededNext("resolve_hitl_update_address") =>
        LET cid   == result'.args.case_id
            v2    == result'.args.corrected_address
            after == cases'[cid]
        IN  /\ "new_address" \in DOMAIN after.working
            /\ after.working.new_address = v2
            /\ "new_address" \in DOMAIN after.overrides
            /\ after.overrides.new_address = v2
            /\ ("new_address" \in DOMAIN cases[cid].overrides
                /\ cases[cid].overrides.new_address # v2)
               => \E i, j \in 1..Len(after.audit) :
                     /\ i < j
                     /\ IsOverrideEntry(after.audit[i], cases[cid].overrides.new_address)
                     /\ IsOverrideEntry(after.audit[j], v2)]_vars

C3_Witness ==
    /\ Succeeded("resolve_hitl_update_address")
    /\ LET c == cases[result.args.case_id]
       IN  \E i, j \in 1..Len(c.audit) :
              /\ i < j
              /\ c.audit[i].event = "resolve_hitl_update_address"
              /\ IsOverrideEntry(c.audit[j], result.args.corrected_address)
              /\ c.audit[i].details.corrected_address # result.args.corrected_address
              /\ c.working.new_address = result.args.corrected_address

(***************************************************************************)
(* C4.  Right after ingest_case returns case_id, the new case has status   *)
(* "created", no overrides, no working values, no extraction, the payload  *)
(* as data, and an audit log of exactly the creation entry.                *)
(***************************************************************************)
C4_FreshCase ==
    Succeeded("ingest_case") =>
        LET cid == result.ret.case_id
        IN  /\ cid \in DOMAIN cases
            /\ cases[cid].status = "created"
            /\ cases[cid].overrides = EmptyDict
            /\ cases[cid].working = EmptyDict
            /\ cases[cid].ocr = None
            /\ cases[cid].data = result.args.data
            /\ Len(cases[cid].audit) = 1
            /\ cases[cid].audit[1].event = "ingest_case"
            /\ cases[cid].audit[1].details = [text |-> "Case created with citizen data."]

C4_Witness ==
    /\ Succeeded("ingest_case")
    /\ result.ret.case_id = CaseId(2)
    /\ Len(cases[CaseId(1)].audit) >= 2

(***************************************************************************)
(* C5.  After close_case_and_audit succeeds on a case, the stored status   *)
(* of that case is "closed".                                               *)
(***************************************************************************)
C5_StoredStatusClosed ==
    Succeeded("close_case_and_audit") =>
        cases[result.args.case_id].status = "closed"

(***************************************************************************)
(* C6 as stated.  Once close_case_and_audit has run on a case, no later    *)
(* call changes any part of its record.                                    *)
(***************************************************************************)
C6_ClosedIsFrozen ==
    [][\A c \in DOMAIN cases : Closed(c) => cases'[c] = cases[c]]_vars

(***************************************************************************)
(* C6 amended.  A closed case still accepts calls: an audit-only step on   *)
(* it succeeds and appends one entry.  What no later call changes is the   *)
(* status, the intake data and the entries already logged, which stay a    *)
(* prefix of the log.                                                      *)
(***************************************************************************)
AuditOnlySteps ==
    {"match_registry_identity", "validate_landlord_confirmation",
     "check_business_rules", "update_registry", "generate_certificate",
     "notify_citizen", "close_case_and_audit"}

C6_ClosedStillAccepts ==
    [][\A c \in DOMAIN cases : Closed(c) =>
          /\ cases'[c].status = cases[c].status
          /\ cases'[c].data = cases[c].data
          /\ IsPrefix(cases[c].audit, cases'[c].audit)
          /\ (CallMade /\ result'.op \in AuditOnlySteps /\ result'.args.case_id = c)
             => /\ result'.ok
                /\ Len(cases'[c].audit) = Len(cases[c].audit) + 1]_vars

C6_Witness ==
    \E c \in DOMAIN cases :
        \E i \in 1..Len(cases[c].audit) :
            /\ cases[c].audit[i].event = "close_case_and_audit"
            /\ i < Len(cases[c].audit)
            /\ result.ok
            /\ result.op # "ingest_case"
            /\ result.args.case_id = c

(***************************************************************************)
(* C7.  The audit_log returned by close_case_and_audit starts with every   *)
(* entry the case's log held before the call, in the same order.           *)
(***************************************************************************)
C7_CloseReturnsFullLog ==
    [][SucceededNext("close_case_and_audit") =>
          IsPrefix(cases[result'.args.case_id].audit, result'.ret.audit_log)]_vars

C7_Witness ==
    /\ Succeeded("close_case_and_audit")
    /\ Len(result.ret.audit_log) >= 4
    /\ result.ret.audit_log[2].event = "run_ocr_extract"
    /\ result.ret.audit_log[3].event = "resolve_hitl_update_address"

(***************************************************************************)
(* C8.  A call naming a case identifier that is not in the store raises    *)
(* and leaves the whole store unchanged.                                   *)
(***************************************************************************)
C8_UnknownCaseRejected ==
    [][(CallMade /\ result'.op # "ingest_case"
        /\ result'.args.case_id \notin DOMAIN cases)
       => /\ ~result'.ok
          /\ result'.error = "KeyError"
          /\ cases' = cases]_vars

C8_Witness ==
    /\ ~result.ok
    /\ result.error = "KeyError"
    /\ result.op = "notify_citizen"
    /\ result.args.case_id \notin DOMAIN cases
    /\ DOMAIN cases # {}

(***************************************************************************)
(* C9.  When the concurrent resolve_hitl_update_address calls have all     *)
(* returned, working.new_address and overrides.new_address equal the       *)
(* corrected value of the last audit entry.                                *)
(***************************************************************************)
C9_NoLostUpdate ==
    (\A t \in Threads : pc[t] = "done") =>
        LET c    == cases[SharedCase]
            last == c.audit[Len(c.audit)]
        IN  /\ c.working.new_address = last.details.corrected_address
            /\ c.overrides.new_address = last.details.corrected_address

(***************************************************************************)
(* C10.  End to end: extraction gives new_address the confidence 0.73,     *)
(* check_completeness answers hitl_required with low_conf_fields exactly   *)
(* [new_address], and after resolve_hitl_update_address(case, C) working   *)
(* and overrides hold C and the log has an override entry whose old value  *)
(* is the raw new address of the intake.                                   *)
(***************************************************************************)
C10_EndToEnd ==
    /\ \A c \in DOMAIN cases :
          cases[c].ocr # None => cases[c].ocr.confidence.new_address = 73
    /\ Succeeded("check_completeness") =>
          /\ result.ret.status = "hitl_required"
          /\ result.ret.low_conf_fields = <<"new_address">>
    /\ Succeeded("resolve_hitl_update_address") =>
          LET c == cases[result.args.case_id]
          IN  /\ c.working.new_address = result.args.corrected_address
              /\ c.overrides.new_address = result.args.corrected_address
              /\ \E i \in 1..Len(c.audit) :
                    /\ c.audit[i].event = "resolve_hitl_update_address"
                    /\ c.audit[i].details.old_address = c.data.new_address_raw

C10_Witness ==
    /\ Succeeded("resolve_hitl_update_address")
    /\ result.args.corrected_address = "Musterstrasse 12a, 12345 Kaiserslautern"
    /\ LET c == cases[result.args.case_id]
       IN  /\ c.data = DEMO_PAYLOAD
           /\ Len(c.audit) = 4
           /\ c.audit[2].event = "run_ocr_extract"
           /\ c.audit[3].event = "check_completeness"
           /\ c.audit[3].details.status = "hitl_required"
           /\ c.audit[4].details.old_address = "Musterstr 12a KL 12345"


(***************************************************************************)
(* C11.  Every ingest_case returns an identifier that no case of the store *)
(* carries yet, whose number is larger than that of every case present,    *)
(* and it leaves every existing record as it was.                          *)
(***************************************************************************)
RECURSIVE DigitsValue(_)
DigitsValue(ds) ==
    IF ds = <<>> THEN 0
    ELSE 10 * DigitsValue(SubSeq(ds, 1, Len(ds) - 1)) + ds[Len(ds)]

CaseNumber(case_id) == DigitsValue(case_id.digits)

C11_FreshIncreasingIds ==
    [][SucceededNext("ingest_case") =>
        LET new_id == result'.ret.case_id
        IN  /\ new_id \notin DOMAIN cases
            /\ new_id \in DOMAIN cases'
            /\ \A c \in DOMAIN cases :
                  /\ CaseNumber(c) < CaseNumber(new_id)
                  /\ c \in DOMAIN cases'
                  /\ cases'[c] = cases[c]]_vars

C11_Witness ==
    /\ Succeeded("ingest_case")
    /\ result.ret.case_id = CaseId(2)
    /\ result.args.data = OtherPayload
    /\ cases[CaseId(1)].ocr # None
    /\ cases[CaseId(1)].data = DEMO_PAYLOAD

(***************************************************************************)
(* C12.  The overrides of a case are empty at creation and change only by  *)
(* a successful resolve_hitl_update_address on that case, which sets the   *)
(* new_address entry to the corrected value; no call removes an entry.     *)
(***************************************************************************)
C12_OverridesOnlyByResolve ==
    [][/\ \A c \in (DOMAIN cases') \ (DOMAIN cases) : cases'[c].overrides = EmptyDict
       /\ \A c \in DOMAIN cases :
             /\ DOMAIN cases[c].overrides \subseteq DOMAIN cases'[c].overrides
             /\ (cases'[c].overrides # cases[c].overrides
                 \/ (SucceededNext("resolve_hitl_update_address")
                     /\ result'.args.case_id = c))
                => /\ SucceededNext("resolve_hitl_update_address")
                   /\ result'.args.case_id = c
                   /\ cases'[c].overrides =
                         SetItem(cases[c].overrides, "new_address",
                                 result'.args.corrected_address)]_vars

C12_Witness ==
    /\ Succeeded("run_ocr_extract")
    /\ LET c == cases[result.args.case_id]
       IN  /\ "new_address" \in DOMAIN c.overrides
           /\ c.overrides.new_address # c.working.new_address
           /\ c.audit[Len(c.audit) - 1].event = "resolve_hitl_update_address"

(***************************************************************************)
(* C13.  Once extraction has run on a case its extraction record keeps its *)
(* values under every later call (an override changes working and          *)
(* overrides, not ocr.fields.new_address), and no call changes the intake  *)
(* data of a case.                                                         *)
(***************************************************************************)
C13_ExtractionAndDataFrozen ==
    [][\A c \in DOMAIN cases :
          /\ cases'[c].data = cases[c].data
          /\ cases[c].ocr # None => cases'[c].ocr = cases[c].ocr
          /\ (SucceededNext("resolve_hitl_update_address") /\ result'.args.case_id = c)
             => /\ cases'[c].ocr.fields.new_address = cases[c].data.new_address_raw
                /\ cases'[c].working.new_address = result'.args.corrected_address
                /\ cases'[c].overrides.new_address = result'.args.corrected_address]_vars

C13_Witness ==
    /\ Succeeded("run_ocr_extract")
    /\ LET c == cases[result.args.case_id]
       IN  /\ Len(c.audit) = 4
           /\ c.audit[2].event = "run_ocr_extract"
           /\ c.audit[3].event = "resolve_hitl_update_address"
           /\ c.audit[3].details.corrected_address # c.data.new_address_raw
           /\ c.ocr.fields.new_address = c.data.new_address_raw


(***************************************************************************)
(* C14.  check_completeness on an extracted case answers hitl_required     *)
(* exactly when some confidence is below 0.8 and ok otherwise, its         *)
(* low_conf_fields are exactly the fields whose confidence is below 0.8,   *)
(* and it writes nothing to the store but its one audit entry.             *)
(***************************************************************************)
C14_CompletenessByThreshold ==
    [][SucceededNext("check_completeness") =>
        LET c      == result'.args.case_id
            conf   == cases[c].ocr.confidence
            low    == {k \in DOMAIN conf : conf[k] < 80}
            fields == result'.ret.low_conf_fields
        IN  /\ result'.ret.status = (IF low # {} THEN "hitl_required" ELSE "ok")
            /\ {fields[i] : i \in 1..Len(fields)} = low
            /\ Len(fields) = Cardinality(low)
            /\ Len(cases'[c].audit) = Len(cases[c].audit) + 1
            /\ cases' = [cases EXCEPT ![c].audit = cases'[c].audit]]_vars

C14_Witness ==
    /\ Succeeded("check_completeness")
    /\ result.ret.status = "ok"
    /\ result.ret.low_conf_fields = <<>>
    /\ cases[result.args.case_id].ocr.confidence.new_address = 80


(***************************************************************************)
(* C15.  resolve_hitl_update_address returns as old_address the value that *)
(* working.new_address held before the call and as new_address the         *)
(* corrected value; the audit entry it appends records the same old value, *)
(* the same new value and a human source.                                  *)
(***************************************************************************)
C15_PreAndPostImage ==
    [][SucceededNext("resolve_hitl_update_address") =>
        LET c     == result'.args.case_id
            log   == cases'[c].audit
            entry == log[Len(log)]
        IN  /\ result'.ret.old_address = cases[c].working.new_address
            /\ result'.ret.new_address = result'.args.corrected_address
            /\ Len(log) = Len(cases[c].audit) + 1
            /\ entry.event = "resolve_hitl_update_address"
            /\ entry.details.old_address = cases[c].working.new_address
            /\ entry.details.corrected_address = result'.args.corrected_address
            /\ entry.details.source = "human_officer"]_vars

C15_Witness ==
    /\ Succeeded("resolve_hitl_update_address")
    /\ result.ret.old_address # result.ret.new_address
    /\ result.ret.old_address = "Musterstrasse 12a, 12345 Kaiserslautern"
    /\ LET c == cases[result.args.case_id]
       IN  c.audit[Len(c.audit)].details.old_address # c.data.new_address_raw

(***************************************************************************)
(* C16.  A resolve_hitl_update_address that directly follows one with the  *)
(* same value on the same case leaves working and overrides as the first   *)
(* call left them, and each of the two calls has its own audit entry.      *)
(***************************************************************************)
C16_RepeatedOverride ==
    [][(/\ Succeeded("resolve_hitl_update_address")
        /\ SucceededNext("resolve_hitl_update_address")
        /\ result'.args = result.args)
       => LET c   == result.args.case_id
              v   == result.args.corrected_address
              log == cases'[c].audit
          IN  /\ cases'[c].working = cases[c].working
              /\ cases'[c].overrides = cases[c].overrides
              /\ Len(log) = Len(cases[c].audit) + 1
              /\ Len(log) >= 2
              /\ IsOverrideEntry(log[Len(log)], v)
              /\ IsOverrideEntry(log[Len(log) - 1], v)]_vars

C16_Witness ==
    /\ Succeeded("resolve_hitl_update_address")
    /\ LET c == cases[result.args.case_id]
       IN  /\ Len(c.audit) = 4
           /\ IsOverrideEntry(c.audit[3], "Musterstrasse 12a, 12345 Kaiserslautern")
           /\ IsOverrideEntry(c.audit[4], "Musterstrasse 12a, 12345 Kaiserslautern")
           /\ c.audit[3].details.old_address # c.audit[4].details.old_address


(***************************************************************************)
(* C17.  The result of every workflow step carries a boolean hitl_required *)
(* next to its status, and the flag is true whenever the status is a soft  *)
(* failure.                                                                *)
(***************************************************************************)
StatusSteps ==
    {"check_completeness", "match_registry_identity", "validate_landlord_confirmation",
     "canonicalize_address", "check_business_rules", "update_registry",
     "generate_certificate", "notify_citizen", "close_case_and_audit"}

SoftFailures == {"hitl_required", "mismatch", "invalid", "ambiguous", "fail", "conflict"}

C17_HitlSignalEverywhere ==
    (result.ok /\ result.op \in StatusSteps) =>
        /\ "status" \in DOMAIN result.ret
        /\ "hitl_required" \in DOMAIN result.ret
        /\ result.ret.hitl_required \in BOOLEAN
        /\ result.ret.status \in SoftFailures => result.ret.hitl_required


(***************************************************************************)
(* C18.  When the concurrent ingest_case calls have all returned, they     *)
(* have returned pairwise distinct identifiers and every returned          *)
(* identifier names a record with that call's payload and exactly one      *)
(* audit entry, the creation entry.                                        *)
(***************************************************************************)
C18_AtomicCreation ==
    (\A t \in Threads : pc[t] = "done") =>
        /\ \A t1, t2 \in Threads :
              t1 # t2 => ingest_case_id[t1] # ingest_case_id[t2]
        /\ \A t \in Threads :
              /\ ingest_case_id[t] \in DOMAIN cases
              /\ cases[ingest_case_id[t]].data = ingest_data[t]
              /\ Len(cases[ingest_case_id[t]].audit) = 1
              /\ cases[ingest_case_id[t]].audit[1].event = "ingest_case"


(***************************************************************************)
(* C19.  What check_completeness answers for a case depends only on the    *)
(* extraction confidences: an override leaves that answer as it was, and a *)
(* check_completeness on a case that carries an override still answers     *)
(* hitl_required with new_address among the low-confidence fields.         *)
(***************************************************************************)
CompletenessOf(case) ==
    [status          |-> CompletenessStatus(LowConf(case.ocr.confidence)),
     low_conf_fields |-> LowConf(case.ocr.confidence)]

C19_OverrideKeepsFlag ==
    [][/\ SucceededNext("resolve_hitl_update_address") =>
             CompletenessOf(cases'[result'.args.case_id])
                 = CompletenessOf(cases[result'.args.case_id])
       /\ (/\ SucceededNext("check_completeness")
           /\ "new_address" \in DOMAIN cases[result'.args.case_id].overrides)
          => /\ result'.ret = CompletenessOf(cases[result'.args.case_id])
             /\ result'.ret.status = "hitl_required"
             /\ result'.ret.low_conf_fields = <<"new_address">>]_vars

C19_Witness ==
    /\ Succeeded("check_completeness")
    /\ result.ret.low_conf_fields = <<"new_address">>
    /\ LET c == cases[result.args.case_id]
       IN  /\ "new_address" \in DOMAIN c.overrides
           /\ c.working.new_address # c.ocr.fields.new_address
           /\ c.audit[3].event = "resolve_hitl_update_address"
           /\ c.audit[4].event = "check_completeness"

(***************************************************************************)
(* C20.  On a stored case on which run_ocr_extract has not run,            *)
(* check_completeness, resolve_hitl_update_address and                     *)
(* canonicalize_address raise and leave the store unchanged, while the     *)
(* steps that read neither extraction nor working data succeed and log.    *)
(***************************************************************************)
NeedsExtraction ==
    {"check_completeness", "resolve_hitl_update_address", "canonicalize_address"}

C20_BeforeExtraction ==
    [][(/\ CallMade
        /\ result'.op \in NeedsExtraction \cup AuditOnlySteps
        /\ result'.args.case_id \in DOMAIN cases
        /\ cases[result'.args.case_id].ocr = None)
       => /\ result'.op \in NeedsExtraction =>
                /\ ~result'.ok
                /\ result'.error \in {"KeyError", "TypeError"}
                /\ cases' = cases
          /\ result'.op \in AuditOnlySteps =>
                /\ result'.ok
                /\ Len(cases'[result'.args.case_id].audit)
                      = Len(cases[result'.args.case_id].audit) + 1]_vars

C20_Witness ==
    /\ ~result.ok
    /\ result.op = "canonicalize_address"
    /\ result.error = "KeyError"
    /\ result.args.case_id \in DOMAIN cases
    /\ LET c == cases[result.args.case_id]
       IN  /\ c.ocr = None
           /\ c.working = EmptyDict
           /\ Len(c.audit) = 2
           /\ c.audit[2].event = "match_registry_identity"

====
